---- MODULE Spec2Model ----
(***************************************************************************)
(* Model of eliot/_action.py: the execution context (a thread-local stack  *)
(* of actions), the Action life cycle (start, finish, child, success       *)
(* fields, scoped use) and the factory functions startAction / startTask.  *)
(*                                                                         *)
(* Python values are modelled as follows.  A dict is a function whose      *)
(* domain is a set of strings and whose values are strings.  An Action     *)
(* object is an index into the sequence `actions`; the record stored there *)
(* holds the object's attributes.  None, exceptions, Failures and plain    *)
(* results are records distinguished by their "type" field.                *)
(***************************************************************************)
EXTENDS Integers, Sequences, FiniteSets, TLC

VARIABLES
    actions,    \* the Action objects created so far, in creation order
    log,        \* for every action, the messages the logger received for it, in order
    stack,      \* _context._stack of every OS thread (threading.local)
    frames,     \* open scopes (with / context() / run) of every logical thread
    host,       \* the OS thread every logical thread of control runs on
    python,     \* the major version of the Python interpreter that runs the code
    uuids,      \* number of uuid4() values generated so far
    deferreds,  \* the Deferreds handed to finishAfter
    hist,       \* history of every action: how it was made and used
    pushed,     \* history of the direct push calls of every logical thread
    lastOp      \* the operation performed by the last step, with its outcome

vars == <<actions, log, stack, frames, host, python, uuids, deferreds, hist, pushed, lastOp>>

----------------------------------------------------------------------------
(* Bounds of the model *)

MaxActions == 1        \* Action objects created in a behaviour of Spec
MaxTreeActions == 3    \* Action objects created in a behaviour of SpecTree
MaxNestedActions == 4  \* Action objects created in a behaviour of SpecNesting
MaxThreadActions == 2  \* Action objects created in a behaviour of SpecThreads
MaxValidatedActions == 1  \* Action objects created in a behaviour of SpecValidation
MaxFailedStarts == 1  \* rejected start messages after which SpecValidation still calls startTask
MaxContextActions == 2  \* Action objects created in a behaviour of SpecContext
MaxPushes == 3       \* direct push calls in a behaviour of SpecContext
MaxScopeActions == 2  \* Action objects created in a behaviour of SpecScopes
MaxDeferredActions == 1  \* Action objects created in a behaviour of SpecDeferred
MaxFieldActions == 2  \* Action objects created in a behaviour of SpecFields
MaxDepth == 2        \* open scopes per logical thread
MaxCallbacks == 2    \* callbacks added to one Deferred

----------------------------------------------------------------------------
(* Values *)

None == [type |-> "NoneType"]

\* the code runs under Python 2 and Python 3 (six)
PythonVersions == {2, 3}

\* the module of the built-in exception classes, as __class__.__module__
\* gives it
BuiltinsModule == IF python = 2 THEN "exceptions" ELSE "builtins"

NoAction == 0

EmptyDict == [k \in {} |-> ""]

\* dict.update: every key of e is written over d
Update(d, e) ==
    [k \in (DOMAIN d) \cup (DOMAIN e) |-> IF k \in DOMAIN e THEN e[k] ELSE d[k]]

\* an exception instance: the module and name of its class, and str() of it
Exc(module, name, text) ==
    [type |-> "exception", module |-> module, name |-> name, text |-> text]

Exceptions ==
    { Exc(BuiltinsModule, "ValueError", "boom"),
      Exc("eliot.tests", "Bust", "bust") }

\* twisted.python.failure.Failure wrapping an exception
Failure(e) == [type |-> "Failure", value |-> e]

\* results a Deferred can be fired with
Results == { [type |-> "result", value |-> "ok"] } \cup { Failure(e) : e \in Exceptions }

\* logical threads of control, and the OS threads that run them
Tasks == {"c1", "c2"}
OSThreads == {"T1", "T2"}

\* c1 and c2 are either two threads, or two coroutines of one thread
Hostings ==
    { [c1 |-> "T1", c2 |-> "T2"],
      [c1 |-> "T1", c2 |-> "T1"] }

Deferreds == {"d1"}

ActionTypes == {"t:a"}

\* keyword arguments given to startAction / startTask
StartFields == { EmptyDict, [entry |-> "1"] }

\* keyword arguments given to addSuccessFields
SuccessFields == { [x |-> "1"], [x |-> "2", y |-> "1"] }

Digit(d) ==
    CASE d = 0 -> "0" [] d = 1 -> "1" [] d = 2 -> "2" [] d = 3 -> "3"
      [] d = 4 -> "4" [] d = 5 -> "5" [] d = 6 -> "6" [] d = 7 -> "7"
      [] d = 8 -> "8" [] d = 9 -> "9"

\* unicode(n) of a non-negative integer: its decimal digits
RECURSIVE unicode(_)
unicode(n) == IF n < 10 THEN Digit(n) ELSE unicode(n \div 10) \o Digit(n % 10)

\* unicode(uuid4()): the n-th value generated; every value is new
uuid4(n) == "uuid-" \o unicode(n)

\* safeunicode(exception): the text of the exception
safeunicode(e) == e.text

----------------------------------------------------------------------------
(* _ExecutionContext *)

\* push that puts the action under the ones already there
pushToBottom(stk, a) == <<a>> \o stk

push(stk, a) == Append(stk, a)

\* what list.pop(-1) raises on an empty list
IndexError == Exc(BuiltinsModule, "IndexError", "pop from empty list")

\* pop that returns normally when the stack is empty
popSilently(stk) ==
    [stack |-> SubSeq(stk, 1, Len(stk) - 1), error |-> None]

\* _ExecutionContext.pop: self._stack.pop(-1) removes the last element;
\* on an empty list it raises IndexError and the list stays empty
pop(stk) ==
    IF stk = <<>>
    THEN [stack |-> stk, error |-> IndexError]
    ELSE [stack |-> SubSeq(stk, 1, Len(stk) - 1), error |-> None]

\* current that returns the first action pushed
currentIsOutermost(stk) == IF stk = <<>> THEN NoAction ELSE stk[1]

current(stk) == IF stk = <<>> THEN NoAction ELSE stk[Len(stk)]

\* _context is threading.local: the stack seen by a logical thread of
\* control is the one of the OS thread that runs it
context(t) == stack[host[t]]

currentAction(t) == current(context(t))

----------------------------------------------------------------------------
(* Action *)

\* Action.__init__
Action(task_uuid, task_level, action_type, serializers) ==
    [ numberOfChildren |-> 0,
      successFields    |-> EmptyDict,
      identification   |-> [ task_uuid   |-> task_uuid,
                             task_level  |-> task_level,
                             action_type |-> action_type ],
      serializers      |-> serializers,
      finished         |-> FALSE ]

\* the logger receives a field mapping together with the action it
\* belongs to
Write(lg, fields, a) == [lg EXCEPT ![a] = Append(@, fields)]

\* the fields every message carries
ProtocolKeys == {"action_status", "task_uuid", "task_level", "action_type"}

\* a serializer: it validates a field mapping against the field names it
\* was declared with
Serializer(names) == [type |-> "serializer", fields |-> names]

ValidationError == Exc("eliot", "ValidationError", "unexpected fields")

\* what the serializer signals for a field mapping: None when there is no
\* serializer or the mapping has the declared fields besides the protocol
\* fields, a validation failure otherwise
Validate(serializer, fields) ==
    IF serializer = None THEN None
    ELSE IF (DOMAIN fields) \ ProtocolKeys = serializer.fields THEN None
         ELSE ValidationError

\* Message(fields, serializer).write(logger, action): the serializer is
\* applied and the mapping delivered to the logger; a validation failure
\* is raised to the caller and nothing is delivered
WriteMessage(lg, fields, serializer, a) ==
    IF Validate(serializer, fields) = None
    THEN [log |-> Write(lg, fields, a), error |-> None]
    ELSE [log |-> lg, error |-> Validate(serializer, fields)]

\* the _ActionSerializers given to an action: None, or the serializers of
\* its start, success and failure messages
ActionSerializers(start_, success, failure) ==
    [type |-> "serializers", start |-> start_, success |-> success, failure |-> failure]

\* _start that lets the caller's fields overwrite the protocol fields
startFieldsLast(A, fields) ==
    [ written    |-> Update(Update([action_status |-> "started"], A.identification),
                            fields),
      serializer |-> IF A.serializers = None THEN None ELSE A.serializers.start ]

\* Action._start: the fields of the start message and the serializer it
\* is written with
start(A, fields) ==
    [ written    |-> Update(Update(fields, [action_status |-> "started"]),
                            A.identification),
      serializer |-> IF A.serializers = None THEN None ELSE A.serializers.start ]

\* the serializer finish chooses: none without _serializers, else the one
\* for success or for failure
FinishSerializer(A, exception) ==
    IF A.serializers = None THEN None
    ELSE IF exception = None THEN A.serializers.success ELSE A.serializers.failure

\* finish without the test of _finished: every call writes a message
finishEveryCall(A, exception) ==
    LET fields == IF exception = None
                  THEN Update(Update(A.successFields, [action_status |-> "succeeded"]),
                              A.identification)
                  ELSE Update([ exception |-> exception.module \o "." \o exception.name,
                                reason    |-> safeunicode(exception),
                                action_status |-> "failed" ],
                              A.identification)
    IN  [ action  |-> [A EXCEPT !.finished = TRUE,
                                !.successFields = IF exception = None THEN fields ELSE @],
          written |-> <<fields>>, error |-> None,
          serializer |-> FinishSerializer(A, exception) ]

\* finish that starts from the success fields in the failure case too
finishKeepsSuccessFields(A, exception) ==
    IF A.finished
    THEN [action |-> A, written |-> <<>>, error |-> None, serializer |-> None]
    ELSE LET status == IF exception = None
                       THEN [action_status |-> "succeeded"]
                       ELSE [ exception |-> exception.module \o "." \o exception.name,
                              reason    |-> safeunicode(exception),
                              action_status |-> "failed" ]
             fields == Update(Update(A.successFields, status), A.identification)
         IN  [ action  |-> [A EXCEPT !.finished = TRUE, !.successFields = fields],
               written |-> <<fields>>, error |-> None,
               serializer |-> FinishSerializer(A, exception) ]

\* finish that treats a second call as an error
finishTwiceIsError(A, exception) ==
    IF A.finished
    THEN [ action |-> A, written |-> <<>>, serializer |-> None,
           error |-> Exc(BuiltinsModule, "RuntimeError", "already finished") ]
    ELSE finishEveryCall(A, exception)

\* Action.finish on the object A; yields the object afterwards, the field
\* mapping handed to Message (none when it was finished already), the
\* serializer chosen for it and the error finish raises before it writes
\* (never one).  _finished is set before the message is written.
finish(A, exception) ==
    IF A.finished
    THEN [action |-> A, written |-> <<>>, error |-> None, serializer |-> None]
    ELSE IF exception = None
         THEN LET fields == Update(Update(A.successFields,
                                          [action_status |-> "succeeded"]),
                                   A.identification)
              IN  \* fields is the _successFields dict itself
                  [ action  |-> [A EXCEPT !.finished = TRUE,
                                          !.successFields = fields],
                    written |-> <<fields>>, error |-> None,
                    serializer |-> FinishSerializer(A, exception) ]
         ELSE LET fields ==
                      Update([ exception |-> exception.module \o "." \o exception.name,
                               reason    |-> safeunicode(exception),
                               action_status |-> "failed" ],
                             A.identification)
              IN  [ action  |-> [A EXCEPT !.finished = TRUE],
                    written |-> <<fields>>, error |-> None,
                    serializer |-> FinishSerializer(A, exception) ]

\* child that numbers the new action before it increments the count
childCountsFromZero(P, action_type, serializers) ==
    LET newLevel == P.identification["task_level"] \o unicode(P.numberOfChildren) \o "/"
    IN  [ parent |-> [P EXCEPT !.numberOfChildren = P.numberOfChildren + 1],
          child  |-> Action(P.identification["task_uuid"], newLevel, action_type,
                            serializers) ]

\* child that gives the new action an identifier of its own
childOwnUuid(P, action_type, serializers) ==
    LET n == P.numberOfChildren + 1
        newLevel == P.identification["task_level"] \o unicode(n) \o "/"
    IN  [ parent |-> [P EXCEPT !.numberOfChildren = n],
          child  |-> Action(P.identification["task_uuid"] \o newLevel, newLevel,
                            action_type, serializers) ]

\* child that does not count the child it makes
childForgetsCount(P, action_type, serializers) ==
    LET n == P.numberOfChildren + 1
        newLevel == P.identification["task_level"] \o unicode(n) \o "/"
    IN  [ parent |-> P,
          child  |-> Action(P.identification["task_uuid"], newLevel, action_type,
                            serializers) ]

\* Action.child on the object P; yields P afterwards and the new object
child(P, action_type, serializers) ==
    LET n == P.numberOfChildren + 1
        newLevel == P.identification["task_level"] \o unicode(n) \o "/"
    IN  [ parent |-> [P EXCEPT !.numberOfChildren = n],
          child  |-> Action(P.identification["task_uuid"], newLevel, action_type,
                            serializers) ]

\* addSuccessFields that makes the action unfinished again
addSuccessFieldsReopens(A, fields) ==
    [A EXCEPT !.successFields = Update(A.successFields, fields), !.finished = FALSE]

\* Action.addSuccessFields
addSuccessFields(A, fields) ==
    [A EXCEPT !.successFields = Update(A.successFields, fields)]

----------------------------------------------------------------------------
(* History kept for the properties *)

\* how an action came to be, and what was done with it
NewHist(via, parent, path, thread) ==
    [ via    |-> via,         \* "startTask", "startAction" or "child"
      parent |-> parent,      \* the parent action, NoAction for a root
      path   |-> path,        \* child indices from the root down
      thread |-> thread,      \* the OS thread the action was created in
      made   |-> 0,           \* child calls made on the action so far
      first  |-> <<>> ]       \* <<argument of the first finish call>>

\* the history after one more child call on action p
ChildMade(h, p) == [h EXCEPT ![p].made = @ + 1]

\* the usage contract of Action ("Actions should only be used from a single
\* thread, by implication the thread where they were created"): logical
\* thread t may use action a when it runs in the OS thread that created a.
\* The methods do not test it; the behaviours of SpecThreads keep to it.
MayUse(t, a) == hist[a].thread = host[t]

Ids == 1 .. Len(actions)

Children(p) == { b \in Ids : hist[b].parent = p }

\* the messages of action a delivered with the given status
Messages(a, status) ==
    { i \in 1 .. Len(log[a]) : log[a][i]["action_status"] = status }

----------------------------------------------------------------------------
(* Initial state *)

\* nothing has been made yet; h says where the logical threads run
Blank(h) ==
    /\ actions = <<>>
    /\ log = <<>>
    /\ stack = [T \in OSThreads |-> <<>>]
    /\ frames = [t \in Tasks |-> <<>>]
    /\ host = h
    /\ python \in PythonVersions
    /\ uuids = 0
    /\ deferreds = [d \in Deferreds |-> [called |-> FALSE, result |-> None,
                                         callbacks |-> <<>>, calls |-> <<>>]]
    /\ hist = <<>>
    /\ pushed = [t \in Tasks |-> <<>>]
    /\ lastOp = [op |-> "init"]

\* every logical thread is an OS thread
Init == Blank([c1 |-> "T1", c2 |-> "T2"])

----------------------------------------------------------------------------
(* Calls shared by several operations *)

\* the objects, the log and the history as one value; error is what the
\* last call made in it raised
World == [actions |-> actions, log |-> log, hist |-> hist, error |-> None]

\* a call of a.finish(exception)
CallFinish(w, a, exception) ==
    LET r == finish(w.actions[a], exception)
        m == IF r.written = <<>> THEN [log |-> w.log, error |-> r.error]
             ELSE WriteMessage(w.log, r.written[1], r.serializer, a)
    IN  [ actions |-> [w.actions EXCEPT ![a] = r.action],
          error   |-> m.error,
          log     |-> m.log,
          hist    |-> IF w.hist[a].first = <<>>
                      THEN [w.hist EXCEPT ![a].first = <<exception>>]
                      ELSE w.hist ]

\* __exit__ that calls finish() without the exception
exitWithoutException(w, stk, a, exception) ==
    [ stack   |-> pop(stk).stack,
      world   |-> IF pop(stk).error # None THEN [w EXCEPT !.error = pop(stk).error]
                  ELSE CallFinish(w, a, None),
      returns |-> None ]

\* __exit__ that finishes first and pops afterwards
exitFinishesFirst(w, stk, a, exception) ==
    [ stack   |-> IF CallFinish(w, a, exception).error # None THEN stk
                  ELSE pop(stk).stack,
      world   |-> IF CallFinish(w, a, exception).error # None
                  THEN CallFinish(w, a, exception)
                  ELSE [CallFinish(w, a, exception) EXCEPT !.error = pop(stk).error],
      returns |-> None ]

\* Action.__exit__(type, exception, traceback) of action a on the context
\* stack stk: pop, then finish(exception); returns None.  An error raised
\* by pop leaves before finish is called.
exit(w, stk, a, exception) ==
    [ stack   |-> pop(stk).stack,
      world   |-> IF pop(stk).error # None THEN [w EXCEPT !.error = pop(stk).error]
                  ELSE CallFinish(w, a, exception),
      returns |-> None ]

\* done without "return result": the callbacks after it receive None
doneReturnsNone(w, a, result) ==
    LET exception == IF result.type = "Failure" THEN result.value ELSE None
    IN  [ world |-> CallFinish(w, a, exception), returns |-> None ]

\* the callback registered by finishAfter, called with the Deferred's
\* current result; yields the world afterwards and the value it returns
done(w, a, result) ==
    LET exception == IF result.type = "Failure" THEN result.value ELSE None
        after == CallFinish(w, a, exception)
    IN  [ world   |-> after,
          \* a callback that raises leaves a Failure of what it raised
          returns |-> IF after.error = None THEN result ELSE Failure(after.error) ]

\* a callback that looks at the result and passes it on
observer(w, result) == [ world |-> [w EXCEPT !.error = None], returns |-> result ]

\* a callback that handles what it receives and returns a value of its own
recover(w, result) ==
    [ world |-> [w EXCEPT !.error = None],
      returns |-> [type |-> "result", value |-> "recovered"] ]

\* a callback that raises: the Deferred's result becomes a Failure of it
raiser(w, result) ==
    [ world |-> [w EXCEPT !.error = None],
      returns |-> Failure(Exc("eliot.tests", "Bust", "bust")) ]

RunCallback(w, cb, result) ==
    CASE cb.kind = "done"     -> done(w, cb.action, result)
      [] cb.kind = "observer" -> observer(w, result)
      [] cb.kind = "recover"  -> recover(w, result)
      [] cb.kind = "raiser"   -> raiser(w, result)

\* Deferred._runCallbacks: every callback receives what the one before
\* it returned.  calls collects what every callback received.
RECURSIVE RunCallbacks(_, _, _, _)
RunCallbacks(w, cbs, result, calls) ==
    IF cbs = <<>>
    THEN [world |-> w, result |-> result, calls |-> calls]
    ELSE LET r == RunCallback(w, Head(cbs), result)
         IN  RunCallbacks(r.world, Tail(cbs), r.returns, Append(calls, result))

SetWorld(w) ==
    /\ actions' = w.actions
    /\ log' = w.log
    /\ hist' = w.hist

----------------------------------------------------------------------------
(* Operations *)

\* the body of startTask; via names the function the caller called.
\* When _start raises, the new object is not returned to anyone.
NewTask(t, action_type, serializers, fields, via) ==
    LET A == Action(uuid4(uuids + 1), "/", action_type, serializers)
        a == Len(actions) + 1
        m == start(A, fields)
        w == WriteMessage(Append(log, <<>>), m.written, m.serializer, a)
    IN  /\ uuids' = uuids + 1
        /\ IF w.error = None
           THEN /\ actions' = Append(actions, A)
                /\ log' = w.log
                /\ hist' = Append(hist, NewHist(via, NoAction, <<>>, host[t]))
                /\ lastOp' = [op |-> via, task |-> t, action |-> a,
                              parent |-> NoAction, error |-> None]
           ELSE /\ UNCHANGED <<actions, log, hist>>
                /\ lastOp' = [op |-> via, task |-> t, action |-> NoAction,
                              parent |-> NoAction, error |-> w.error]

\* startTask that takes the task identifier of the first task
StartTaskSameUuid(t, action_type, serializers, fields) ==
    /\ actions' = Append(actions, Action(uuid4(1), "/", action_type, serializers))
    /\ log' = Write(Append(log, <<>>),
                    start(Action(uuid4(1), "/", action_type, serializers), fields).written,
                    Len(actions) + 1)
    /\ hist' = Append(hist, NewHist("startTask", NoAction, <<>>, host[t]))
    /\ lastOp' = [op |-> "startTask", task |-> t, action |-> Len(actions) + 1,
                  parent |-> NoAction, error |-> None]
    /\ uuids' = uuids + 1
    /\ UNCHANGED <<stack, frames, host, python, deferreds, pushed>>

\* startTask(logger, action_type, _serializers, **fields)
StartTask(t, action_type, serializers, fields) ==
    /\ NewTask(t, action_type, serializers, fields, "startTask")
    /\ UNCHANGED <<stack, frames, host, python, deferreds, pushed>>

\* startAction that does not start the child it makes
StartActionUnstarted(t, action_type, serializers, fields) ==
    /\ LET parent == currentAction(t)
       IN  IF parent = NoAction
           THEN NewTask(t, action_type, serializers, fields, "startAction")
           ELSE LET r == child(actions[parent], action_type, serializers)
                    k == hist[parent].made + 1
                IN  /\ actions' = Append([actions EXCEPT ![parent] = r.parent], r.child)
                    /\ log' = Append(log, <<>>)
                    /\ hist' = Append(ChildMade(hist, parent),
                                      NewHist("startAction", parent,
                                              Append(hist[parent].path, k), host[t]))
                    /\ lastOp' = [op |-> "startAction", task |-> t,
                                  action |-> Len(actions) + 1, parent |-> parent,
                                  error |-> None]
                    /\ uuids' = uuids
    /\ UNCHANGED <<stack, frames, host, python, deferreds, pushed>>

\* startAction(logger, action_type, _serializers, **fields).  When _start
\* raises, the child has been counted by its parent and is not returned.
StartAction(t, action_type, serializers, fields) ==
    /\ LET parent == currentAction(t)
       IN  IF parent = NoAction
           THEN NewTask(t, action_type, serializers, fields, "startAction")
           ELSE LET r == child(actions[parent], action_type, serializers)
                    a == Len(actions) + 1
                    k == hist[parent].made + 1
                    m == start(r.child, fields)
                    w == WriteMessage(Append(log, <<>>), m.written, m.serializer, a)
                IN  /\ uuids' = uuids
                    /\ IF w.error = None
                       THEN /\ actions' = Append([actions EXCEPT ![parent] = r.parent],
                                                 r.child)
                            /\ log' = w.log
                            /\ hist' = Append(ChildMade(hist, parent),
                                              NewHist("startAction", parent,
                                                      Append(hist[parent].path, k),
                                                      host[t]))
                            /\ lastOp' = [op |-> "startAction", task |-> t, action |-> a,
                                          parent |-> parent, error |-> None]
                       ELSE /\ actions' = [actions EXCEPT ![parent] = r.parent]
                            /\ hist' = ChildMade(hist, parent)
                            /\ log' = log
                            /\ lastOp' = [op |-> "startAction", task |-> t,
                                          action |-> NoAction, parent |-> parent,
                                          error |-> w.error]
    /\ UNCHANGED <<stack, frames, host, python, deferreds, pushed>>

\* p.child(logger, action_type, serializers), called directly: the child
\* is not started
Child(p, action_type, serializers) ==
    /\ p \in Ids
    /\ LET r == child(actions[p], action_type, serializers)
           k == hist[p].made + 1
       IN  /\ actions' = Append([actions EXCEPT ![p] = r.parent], r.child)
           /\ hist' = Append(ChildMade(hist, p),
                             NewHist("child", p, Append(hist[p].path, k),
                                     hist[p].thread))
           /\ lastOp' = [op |-> "child", action |-> Len(actions) + 1, parent |-> p]
    /\ log' = Append(log, <<>>)
    /\ UNCHANGED <<stack, frames, host, python, uuids, deferreds, pushed>>

\* a.finish(exception), called directly
Finish(a, exception) ==
    /\ a \in Ids
    /\ SetWorld(CallFinish(World, a, exception))
    /\ lastOp' = [op |-> "finish", action |-> a, exception |-> exception,
                  error |-> CallFinish(World, a, exception).error]
    /\ UNCHANGED <<stack, frames, host, python, uuids, deferreds, pushed>>

\* a.addSuccessFields(**fields)
AddSuccessFields(a, fields) ==
    /\ a \in Ids
    /\ actions' = [actions EXCEPT ![a] = addSuccessFields(actions[a], fields)]
    /\ lastOp' = [op |-> "addSuccessFields", action |-> a, fields |-> fields]
    /\ UNCHANGED <<log, stack, frames, host, python, uuids, deferreds, hist, pushed>>

InnerScope(t) == frames[t][Len(frames[t])]

\* "with a:" is entered: a.__enter__()
Enter(t, a) ==
    /\ a \in Ids
    /\ Len(frames[t]) < MaxDepth
    /\ stack' = [stack EXCEPT ![host[t]] = push(@, a)]
    /\ frames' = [frames EXCEPT ![t] = Append(@, [kind |-> "with", action |-> a,
                                                  before |-> context(t)])]
    /\ lastOp' = [op |-> "__enter__", task |-> t, action |-> a]
    /\ UNCHANGED <<actions, log, host, python, uuids, deferreds, hist, pushed>>

\* the body of "with a:" ends, normally (exception = None) or by raising:
\* a.__exit__(type, exception, traceback).  What leaves the with statement
\* is an error raised by __exit__ itself, or else the exception of the
\* body unless __exit__ returned a true value.
Exit(t, exception) ==
    /\ frames[t] # <<>>
    /\ InnerScope(t).kind = "with"
    /\ LET a == InnerScope(t).action
           r == exit(World, context(t), a, exception)
       IN  /\ stack' = [stack EXCEPT ![host[t]] = r.stack]
           /\ SetWorld(r.world)
           /\ lastOp' = [op |-> "__exit__", task |-> t, action |-> a,
                         exception |-> exception, error |-> r.world.error,
                         before |-> InnerScope(t).before,
                         raised |-> IF r.world.error # None THEN r.world.error
                                    ELSE IF r.returns = None
                                         THEN exception ELSE None]
    /\ frames' = [frames EXCEPT ![t] = SubSeq(@, 1, Len(@) - 1)]
    /\ UNCHANGED <<host, python, uuids, deferreds, pushed>>

\* deferred.addBoth(cb): cb is queued, or called at once with the current
\* result when the Deferred has fired already
AddBoth(d, cb) ==
    /\ Len(deferreds[d].callbacks) < MaxCallbacks
    /\ IF deferreds[d].called
       THEN LET r == RunCallbacks(World, <<cb>>, deferreds[d].result, deferreds[d].calls)
            IN  /\ SetWorld(r.world)
                /\ deferreds' = [deferreds EXCEPT ![d].callbacks = Append(@, cb),
                                                  ![d].result = r.result,
                                                  ![d].calls = r.calls]
       ELSE /\ deferreds' = [deferreds EXCEPT ![d].callbacks = Append(@, cb)]
            /\ UNCHANGED <<actions, log, hist>>

\* finishAfter that finishes the action when it is called
FinishAfterFinishesNow(a, d) ==
    /\ a \in Ids
    /\ Len(deferreds[d].callbacks) < MaxCallbacks
    /\ SetWorld(CallFinish(World, a, None))
    /\ deferreds' = [deferreds EXCEPT ![d].callbacks =
                                          Append(@, [kind |-> "done", action |-> a])]
    /\ lastOp' = [op |-> "finishAfter", action |-> a, deferred |-> d, error |-> None]
    /\ UNCHANGED <<stack, frames, host, python, uuids, pushed>>

\* a.finishAfter(deferred)
FinishAfter(a, d) ==
    /\ a \in Ids
    /\ AddBoth(d, [kind |-> "done", action |-> a])
    /\ lastOp' = [op |-> "finishAfter", action |-> a, deferred |-> d, error |-> None]
    /\ UNCHANGED <<stack, frames, host, python, uuids, pushed>>

\* the application adds a callback of its own to the Deferred
AddCallback(d, kind) ==
    /\ AddBoth(d, [kind |-> kind])
    /\ lastOp' = [op |-> "addBoth", kind |-> kind]
    /\ UNCHANGED <<stack, frames, host, python, uuids, pushed>>

\* the callback added looks at the result and passes it on
AddObserver(d) == AddCallback(d, "observer")

\* the Deferred fires with a result or a Failure: its callbacks run in order
Fire(d, result) ==
    /\ ~deferreds[d].called
    /\ LET r == RunCallbacks(World, deferreds[d].callbacks, result, <<>>)
       IN  /\ SetWorld(r.world)
           /\ deferreds' = [deferreds EXCEPT ![d].called = TRUE,
                                             ![d].result = r.result,
                                             ![d].calls = r.calls]
    /\ lastOp' = [op |-> "fire", result |-> result, error |-> None]
    /\ UNCHANGED <<stack, frames, host, python, uuids, pushed>>

\* what the body of a context() block or the function given to run does:
\* it returns a value or raises an exception
BodyOutcomes ==
    { [type |-> "result", value |-> "ok"], Exc(BuiltinsModule, "ValueError", "boom") }

\* the end of a context() block that finishes the action as __exit__ does
contextFinallyFinishes(w, stk, a, outcome) ==
    [ stack      |-> pop(stk).stack,
      world      |-> IF pop(stk).error # None THEN [w EXCEPT !.error = pop(stk).error]
                     ELSE CallFinish(w, a, IF outcome.type = "exception" THEN outcome
                                           ELSE None),
      propagated |-> IF pop(stk).error # None THEN pop(stk).error ELSE outcome ]

\* Action.context, from the yield on: the body has ended with the given
\* outcome, the finally clause pops, and the outcome goes on to the caller
\* (an error raised by pop goes on instead)
contextFinally(w, stk, a, outcome) ==
    [ stack      |-> pop(stk).stack,
      world      |-> [w EXCEPT !.error = pop(stk).error],
      propagated |-> IF pop(stk).error # None THEN pop(stk).error ELSE outcome ]

\* Action.run, from the call of f on: f has returned or raised, the finally
\* clause pops, and run returns what f returned or raises what f raised
runFinally(w, stk, a, outcome) ==
    [ stack      |-> pop(stk).stack,
      world      |-> [w EXCEPT !.error = pop(stk).error],
      propagated |-> IF pop(stk).error # None THEN pop(stk).error ELSE outcome ]

\* "with a.context():" is entered, or a.run(f) is called and f begins
EnterContext(t, a, kind) ==
    /\ a \in Ids
    /\ Len(frames[t]) < MaxDepth
    /\ stack' = [stack EXCEPT ![host[t]] = push(@, a)]
    /\ frames' = [frames EXCEPT ![t] = Append(@, [kind |-> kind, action |-> a,
                                                  before |-> context(t)])]
    /\ lastOp' = [op |-> kind, task |-> t, action |-> a]
    /\ UNCHANGED <<actions, log, host, python, uuids, deferreds, hist, pushed>>

\* the body of the innermost "with a.context():" ends, or the function of
\* the innermost a.run(f) returns or raises
LeaveContext(t, outcome) ==
    /\ frames[t] # <<>>
    /\ InnerScope(t).kind \in {"context", "run"}
    /\ LET a == InnerScope(t).action
           r == IF InnerScope(t).kind = "context"
                THEN contextFinally(World, context(t), a, outcome)
                ELSE runFinally(World, context(t), a, outcome)
       IN  /\ stack' = [stack EXCEPT ![host[t]] = r.stack]
           /\ SetWorld(r.world)
           /\ lastOp' = [op |-> InnerScope(t).kind \o " end", task |-> t, action |-> a,
                         outcome |-> outcome, propagated |-> r.propagated,
                         before |-> InnerScope(t).before]
    /\ frames' = [frames EXCEPT ![t] = SubSeq(@, 1, Len(@) - 1)]
    /\ UNCHANGED <<host, python, uuids, deferreds, pushed>>

\* _context.push(a), called directly
Push(t, a) ==
    /\ a \in Ids
    /\ Len(pushed[t]) < MaxPushes
    /\ stack' = [stack EXCEPT ![host[t]] = push(@, a)]
    /\ pushed' = [pushed EXCEPT ![t] = Append(@, [action |-> a, popped |-> FALSE])]
    /\ lastOp' = [op |-> "push", task |-> t, action |-> a]
    /\ UNCHANGED <<actions, log, frames, host, python, uuids, deferreds, hist>>

\* the pushes of a history that no pop has taken back: positions
Unpopped(h) == { i \in 1 .. Len(h) : ~h[i].popped }

\* the latest of them, 0 if there is none
LatestUnpopped(h) ==
    IF Unpopped(h) = {} THEN 0
    ELSE CHOOSE i \in Unpopped(h) : \A j \in Unpopped(h) : j <= i

\* _context.pop(), called directly.  In the history a pop that returns
\* takes back the latest push not taken back yet.
Pop(t) ==
    /\ stack' = [stack EXCEPT ![host[t]] = pop(@).stack]
    /\ pushed' = IF pop(context(t)).error = None /\ LatestUnpopped(pushed[t]) # 0
                 THEN [pushed EXCEPT ![t][LatestUnpopped(pushed[t])].popped = TRUE]
                 ELSE pushed
    /\ lastOp' = [op |-> "pop", task |-> t, error |-> pop(context(t)).error]
    /\ UNCHANGED <<actions, log, frames, host, python, uuids, deferreds, hist>>

\* currentAction(), called directly
Current(t) ==
    /\ lastOp' = [op |-> "current", task |-> t, returns |-> currentAction(t)]
    /\ UNCHANGED <<actions, log, stack, frames, host, python, uuids, deferreds, hist, pushed>>

Outcomes == {None} \cup Exceptions

TreeOutcomes == {None, Exc(BuiltinsModule, "ValueError", "boom")}

CanCreate(n) == Len(actions) < n

----------------------------------------------------------------------------
(* Spec: the life of an action in one thread.  It is started, collects     *)
(* success fields, is used as a scope and handed to a Deferred, and is     *)
(* finished along any of these paths, in any order.                        *)

Main == "c1"

Next ==
    \/ \E ty \in ActionTypes, f \in StartFields :
          CanCreate(MaxActions) /\ StartTask(Main, ty, None, f)
    \/ \E ty \in ActionTypes, f \in StartFields :
          CanCreate(MaxActions) /\ StartAction(Main, ty, None, f)
    \/ \E a \in Ids, e \in Outcomes : Finish(a, e)
    \/ \E a \in Ids, f \in SuccessFields : AddSuccessFields(a, f)
    \/ \E a \in Ids : Enter(Main, a)
    \/ \E e \in Outcomes : Exit(Main, e)
    \/ \E a \in Ids, d \in Deferreds : FinishAfter(a, d)
    \/ \E d \in Deferreds : AddObserver(d)
    \/ \E d \in Deferreds, r \in Results : Fire(d, r)

Spec == Init /\ [][Next]_vars

----------------------------------------------------------------------------
(* SpecTree: one thread builds trees of actions with startTask,            *)
(* startAction and child, and finishes them in any order.                  *)

\* serializers whose start serializer asks for the field "entry"
EntrySerializers ==
    ActionSerializers(Serializer({"entry"}), Serializer({"x", "y"}),
                      Serializer({"exception", "reason"}))

\* the child calls whose child was dropped because its start message was
\* rejected
RejectedStarts ==
    Cardinality({ c \in Ids \X (1 .. MaxTreeActions) : c[2] <= hist[c[1]].made })
        - Cardinality({ a \in Ids : hist[a].parent # NoAction })

\* fewer than MaxTreeActions Action objects were created, the dropped
\* children included
CanCreateTree == Len(actions) + RejectedStarts < MaxTreeActions

NextTree ==
    \/ \E ty \in ActionTypes : CanCreateTree /\ StartTask(Main, ty, None, EmptyDict)
    \/ \E ty \in ActionTypes : CanCreateTree /\ StartAction(Main, ty, None, EmptyDict)
    \/ \E p \in Ids, ty \in ActionTypes : CanCreateTree /\ Child(p, ty, None)
    \/ \E ty \in ActionTypes :
          /\ CanCreateTree
          /\ currentAction(Main) # NoAction
          /\ StartAction(Main, ty, EntrySerializers, EmptyDict)
    \/ \E a \in Ids, e \in TreeOutcomes : Finish(a, e)
    \/ \E a \in Ids : Enter(Main, a)
    \/ \E e \in TreeOutcomes : Exit(Main, e)

SpecTree == Init /\ [][NextTree]_vars

----------------------------------------------------------------------------
(* SpecNesting: one thread nests startAction calls in with blocks.         *)

NextNesting ==
    \/ \E ty \in ActionTypes : CanCreate(MaxNestedActions) /\ StartAction(Main, ty, None, EmptyDict)
    \/ \E a \in Ids : Enter(Main, a)
    \/ \E e \in TreeOutcomes : Exit(Main, e)

SpecNesting == Init /\ [][NextNesting]_vars

----------------------------------------------------------------------------
(* SpecThreads: two logical threads of control, which are two OS threads   *)
(* or two coroutines of one OS thread, start actions and use them as       *)
(* scopes.  An Action is entered only from the OS thread that created it,  *)
(* as its class documents: no two OS threads run methods of one Action,    *)
(* and the coroutines of one OS thread run their calls in turn.            *)

InitThreads == \E h \in Hostings : Blank(h)

NextThreads ==
    \/ \E t \in Tasks, ty \in ActionTypes :
          CanCreate(MaxThreadActions) /\ StartAction(t, ty, None, EmptyDict)
    \/ \E t \in Tasks, a \in Ids : MayUse(t, a) /\ Enter(t, a)
    \/ \E t \in Tasks, e \in TreeOutcomes : Exit(t, e)

SpecThreads == InitThreads /\ [][NextThreads]_vars

----------------------------------------------------------------------------
(* SpecValidation: one thread uses actions that were given serializers;    *)
(* a message the serializer rejects raises a validation failure to the     *)
(* caller of startTask, finish or the with statement.                      *)

\* the _serializers arguments: none; start fields {entry}, success fields
\* {x, y} and the fields finish gives a failure message; no start fields,
\* success field {x} and a failure message with a field finish never gives
SerializerSets ==
    { None,
      ActionSerializers(Serializer({"entry"}), Serializer({"x", "y"}),
                        Serializer({"exception", "reason"})),
      ActionSerializers(Serializer({}), Serializer({"x"}),
                        Serializer({"exception", "reason", "code"})) }

NextValidation ==
    \/ \E ty \in ActionTypes, sz \in SerializerSets, f \in StartFields :
          /\ CanCreate(MaxValidatedActions)
          /\ uuids - Len(actions) <= MaxFailedStarts
          /\ StartTask(Main, ty, sz, f)
    \/ \E a \in Ids, f \in SuccessFields : AddSuccessFields(a, f)
    \/ \E a \in Ids, e \in TreeOutcomes : Finish(a, e)
    \/ \E a \in Ids : Enter(Main, a)
    \/ \E e \in TreeOutcomes : Exit(Main, e)

SpecValidation == Init /\ [][NextValidation]_vars

----------------------------------------------------------------------------
(* SpecContext: one thread calls push, pop and current of the execution    *)
(* context directly, pop also on an empty stack.                           *)

NextContext ==
    \/ \E ty \in ActionTypes :
          CanCreate(MaxContextActions) /\ StartTask(Main, ty, None, EmptyDict)
    \/ \E a \in Ids : Push(Main, a)
    \/ Pop(Main)
    \/ Current(Main)

SpecContext == Init /\ [][NextContext]_vars

----------------------------------------------------------------------------
(* SpecScopes: one thread runs code under actions with context() blocks,   *)
(* run(f) and with blocks, nested in any way.                              *)

NextScopes ==
    \/ \E ty \in ActionTypes :
          CanCreate(MaxScopeActions) /\ StartAction(Main, ty, None, EmptyDict)
    \/ \E a \in Ids, kind \in {"context", "run"} : EnterContext(Main, a, kind)
    \/ \E o \in BodyOutcomes : LeaveContext(Main, o)
    \/ \E a \in Ids : Enter(Main, a)
    \/ \E e \in TreeOutcomes : Exit(Main, e)

SpecScopes == Init /\ [][NextScopes]_vars

----------------------------------------------------------------------------
(* SpecDeferred: an action is handed to a Deferred that has other          *)
(* callbacks, some of which change the result, and that fires or not.      *)

CallbackKinds == {"observer", "recover", "raiser"}

NextDeferred ==
    \/ \E ty \in ActionTypes :
          CanCreate(MaxDeferredActions) /\ StartTask(Main, ty, None, EmptyDict)
    \/ \E a \in Ids, d \in Deferreds : FinishAfter(a, d)
    \/ \E d \in Deferreds, kind \in CallbackKinds : AddCallback(d, kind)
    \/ \E d \in Deferreds, r \in Results : Fire(d, r)
    \/ \E a \in Ids, e \in TreeOutcomes : Finish(a, e)

SpecDeferred == Init /\ [][NextDeferred]_vars

----------------------------------------------------------------------------
(* SpecFields: the caller passes fields named like the protocol fields to  *)
(* startTask, startAction and addSuccessFields.                            *)

\* keyword arguments of startAction / startTask that use protocol keys
\* (action_type is a parameter of both and cannot be among **fields)
ProtocolStartFields ==
    { [task_uuid |-> "mine", action_status |-> "mine"],
      [task_level |-> "mine", entry |-> "1"] }

\* keyword arguments of addSuccessFields that use protocol keys
ProtocolSuccessFields ==
    { [action_status |-> "mine", task_uuid |-> "mine", x |-> "1"],
      [task_level |-> "mine", action_type |-> "mine"] }

NextFields ==
    \/ \E ty \in ActionTypes, f \in ProtocolStartFields :
          CanCreate(MaxFieldActions) /\ StartTask(Main, ty, None, f)
    \/ \E ty \in ActionTypes, f \in ProtocolStartFields :
          CanCreate(MaxFieldActions) /\ StartAction(Main, ty, None, f)
    \/ \E a \in Ids, f \in ProtocolSuccessFields : AddSuccessFields(a, f)
    \/ \E a \in Ids, e \in TreeOutcomes : Finish(a, e)
    \/ \E a \in Ids : Enter(Main, a)
    \/ \E e \in TreeOutcomes : Exit(Main, e)

SpecFields == Init /\ [][NextFields]_vars

----------------------------------------------------------------------------
(* Properties *)

Statuses(a) == [i \in 1 .. Len(log[a]) |-> log[a][i]["action_status"]]

\* positions of the finish messages among the messages lg holds for a
FinishMessagesIn(lg, a) ==
    { i \in 1 .. Len(lg[a]) : lg[a][i]["action_status"] \in {"succeeded", "failed"} }

FinishMessages(a) == FinishMessagesIn(log, a)

QualifiedName(e) == e.module \o "." \o e.name

\* message m reports the outcome of finish(e)
Reports(m, e) ==
    IF e = None
    THEN /\ m["action_status"] = "succeeded"
         /\ "exception" \notin DOMAIN m
         /\ "reason" \notin DOMAIN m
    ELSE /\ m["action_status"] = "failed"
         /\ "exception" \in DOMAIN m /\ m["exception"] = QualifiedName(e)
         /\ "reason" \in DOMAIN m /\ m["reason"] = e.text

\* in every state: an action on which finish was never called has no
\* finish message, another has exactly one, reporting the first call
OneFinishMessage ==
    \A a \in Ids :
        IF hist[a].first = <<>>
        THEN FinishMessages(a) = {}
        ELSE /\ Cardinality(FinishMessages(a)) = 1
             /\ \A i \in FinishMessages(a) : Reports(log[a][i], hist[a].first[1])

\* a step that calls finish on an action finished already changes
\* neither the action nor what the logger has received
LaterFinishIsNoOp ==
    (lastOp'.op = "finish" /\ actions[lastOp'.action].finished)
        => /\ actions' = actions
           /\ log' = log
           /\ UNCHANGED <<stack, frames, deferreds, uuids>>
           /\ lastOp'.error = None

\* C1: whatever finish calls are made on an action (one or more, with None
\* or with exceptions), the logger receives exactly one finish message for
\* it, with the outcome of the first call, and every later call emits
\* nothing and changes no state.
C1_FinishOnce == []OneFinishMessage /\ [][LaterFinishIsNoOp]_vars

\* finish(None) was called first, a later finish(exception) has just been
\* made, and the one finish message says "succeeded"
C1_Witness ==
    /\ lastOp.op = "finish"
    /\ lastOp.exception \in Exceptions
    /\ hist[lastOp.action].first = <<None>>
    /\ Cardinality(FinishMessages(lastOp.action)) = 1
    /\ Statuses(lastOp.action) = <<"started", "succeeded">>

LastMessage(lg, a) == lg[a][Len(lg[a])]

\* a step that calls finish on an unfinished action delivers one message:
\* for None the accumulated success fields, "succeeded" and the
\* identification; for an exception its name and text, "failed" and the
\* identification, and nothing else
FinishDelivers ==
    \A a \in Ids :
        (lastOp'.op = "finish" /\ lastOp'.action = a /\ ~actions[a].finished) =>
            LET S == actions[a].successFields
                ident == actions[a].identification
                e == lastOp'.exception
                m == LastMessage(log', a)
            IN  /\ Len(log'[a]) = Len(log[a]) + 1
                /\ \A k \in {"task_uuid", "task_level", "action_type"} : m[k] = ident[k]
                /\ IF e = None
                   THEN /\ DOMAIN m = (DOMAIN S) \cup ProtocolKeys
                        /\ m["action_status"] = "succeeded"
                        /\ \A k \in (DOMAIN S) \ ProtocolKeys : m[k] = S[k]
                   ELSE /\ DOMAIN m = {"exception", "reason"} \cup ProtocolKeys
                        /\ m["action_status"] = "failed"
                        /\ m["exception"] = QualifiedName(e)
                        /\ m["reason"] = e.text

\* a step that adds success fields to an unfinished action writes the
\* given keys and keeps the others
LastWritePerKey ==
    \A a \in Ids :
        (lastOp'.op = "addSuccessFields" /\ lastOp'.action = a /\ ~actions[a].finished) =>
            LET S == actions[a].successFields
                T == actions'[a].successFields
                f == lastOp'.fields
            IN  /\ DOMAIN T = (DOMAIN S) \cup (DOMAIN f)
                /\ \A k \in DOMAIN f : T[k] = f[k]
                /\ \A k \in (DOMAIN S) \ (DOMAIN f) : T[k] = S[k]

\* C5: finish(None) on an unfinished action delivers its accumulated success
\* fields (the last value written for every key) with action_status
\* "succeeded" and the identification fields; finish(e) delivers
\* action_status "failed", the qualified type name of e as exception, the
\* text of e as reason and the identification fields, and none of the
\* success fields.
C5_FinishFields == [][FinishDelivers /\ LastWritePerKey]_vars

\* x was written twice and y once, then finish(exception) delivered a
\* failure message without x and y
C5_Witness ==
    /\ lastOp.op = "finish"
    /\ lastOp.exception \in Exceptions
    /\ hist[lastOp.action].first = <<lastOp.exception>>
    /\ actions[lastOp.action].successFields = [x |-> "1", y |-> "1"]
    /\ Statuses(lastOp.action) = <<"started", "failed">>
    /\ DOMAIN LastMessage(log, lastOp.action) \cap {"x", "y"} = {}

\* a step in which __exit__ ran on an action that was not finished delivers
\* one finish message reporting what left the scope; on an action that was
\* finished it delivers nothing; what left the scope goes on to the caller
ExitReports ==
    lastOp'.op = "__exit__" =>
        LET a == lastOp'.action
            e == lastOp'.exception
        IN  /\ IF actions[a].finished
               THEN log'[a] = log[a]
               ELSE /\ Len(log'[a]) = Len(log[a]) + 1
                    /\ Reports(LastMessage(log', a), e)
            /\ Cardinality(FinishMessagesIn(log', a)) = 1
            /\ lastOp'.raised = e

\* C6 as amended: when a scope on an action that has not been finished
\* before is left, the exit emits exactly one finish message, a failure
\* message with the type name and reason of the exception that left the
\* scope, or a success message when the scope was left normally; an action
\* finished before keeps its one earlier finish message; in every case the
\* exception goes on to the caller.
C6_ExitReports == [][ExitReports]_vars

\* a scope was left by an exception, the action had not been finished
\* before, and the exception goes on
C6_Witness ==
    /\ lastOp.op = "__exit__"
    /\ lastOp.exception \in Exceptions
    /\ lastOp.raised = lastOp.exception
    /\ hist[lastOp.action].first = <<lastOp.exception>>
    /\ Statuses(lastOp.action) = <<"started", "failed">>
    /\ LastMessage(log, lastOp.action)["reason"] = lastOp.exception.text

\* C6 as stated: whenever a scope is left, the one finish message of the
\* action reports what left the scope
C6_AsStated ==
    [][lastOp'.op = "__exit__" =>
          /\ Cardinality(FinishMessagesIn(log', lastOp'.action)) = 1
          /\ \A i \in FinishMessagesIn(log', lastOp'.action) :
                 Reports(log'[lastOp'.action][i], lastOp'.exception)
          /\ lastOp'.raised = lastOp'.exception]_vars

\* the exception done hands to finish for a result
ExceptionOf(result) == IF result.type = "Failure" THEN result.value ELSE None

\* the callbacks of d that run in this step: positions in its list
Ran(d) == (Len(deferreds[d].calls) + 1) .. Len(deferreds'[d].calls)

IsDone(cb, a) == cb.kind = "done" /\ cb.action = a

\* the first callback of d running in this step that finishes a
FirstDone(d, a) ==
    { i \in Ran(d) :
        /\ IsDone(deferreds'[d].callbacks[i], a)
        /\ \A j \in Ran(d) : IsDone(deferreds'[d].callbacks[j], a) => i <= j }

\* a step in which the callback of finishAfter runs: an action that was not
\* finished gets one finish message reporting the result the callback
\* received, a finished one gets none; the callback's successor receives
\* the same result, and if it has none the Deferred keeps it
DoneReports ==
    \A d \in Deferreds : \A i \in Ran(d) :
        LET cb == deferreds'[d].callbacks[i]
            received == deferreds'[d].calls[i]
        IN  cb.kind = "done" =>
              /\ IF actions[cb.action].finished
                 THEN log'[cb.action] = log[cb.action]
                 ELSE /\ Len(log'[cb.action]) = Len(log[cb.action]) + 1
                      /\ i \in FirstDone(d, cb.action) =>
                             Reports(LastMessage(log', cb.action), ExceptionOf(received))
              /\ IF i < Len(deferreds'[d].calls)
                 THEN deferreds'[d].calls[i + 1] = received
                 ELSE deferreds'[d].result = received

\* C7 as amended: when the Deferred given to finishAfter fires with a
\* Failure and the action has not been finished before, the action emits a
\* failure finish message with that Failure's exception; when it fires with
\* a result, a success finish message; an action finished before emits
\* nothing; in every case the callback hands the result or Failure it
\* received, unchanged, to the callbacks added after it.
C7_DoneReports == [][DoneReports]_vars

\* the Deferred fired with a Failure: the callback of finishAfter finished
\* the action with its exception and the callback after it received the
\* same Failure
C7_Witness ==
    \E d \in Deferreds, e \in Exceptions :
        /\ lastOp.op = "fire"
        /\ lastOp.result = Failure(e)
        /\ Len(deferreds[d].callbacks) = 2
        /\ deferreds[d].callbacks[1].kind = "done"
        /\ deferreds[d].callbacks[2].kind = "observer"
        /\ deferreds[d].calls = <<Failure(e), Failure(e)>>
        /\ hist[deferreds[d].callbacks[1].action].first = <<e>>
        /\ Statuses(deferreds[d].callbacks[1].action) = <<"started", "failed">>
        /\ LastMessage(log, deferreds[d].callbacks[1].action)["reason"] = e.text

\* C7 as stated: in every state, an action whose finishAfter callback has
\* run has one finish message and it reports the result the callback
\* received, which the next callback received too
C7_AsStated ==
    \A d \in Deferreds : \A i \in 1 .. Len(deferreds[d].calls) :
        LET cb == deferreds[d].callbacks[i]
            received == deferreds[d].calls[i]
        IN  (cb.kind = "done" /\ \A j \in 1 .. (i - 1) : deferreds[d].callbacks[j] # cb) =>
              /\ Cardinality(FinishMessages(cb.action)) = 1
              /\ \A m \in FinishMessages(cb.action) :
                     Reports(log[cb.action][m], ExceptionOf(received))
              /\ i < Len(deferreds[d].calls) => deferreds[d].calls[i + 1] = received

\* a step that runs a completion path on action a (a finish call, the exit
\* of a scope, the callback of finishAfter), with the outcome it reports
Completions(a) ==
    (IF lastOp'.op \in {"finish", "__exit__"} /\ lastOp'.action = a
     THEN {lastOp'.exception} ELSE {})
    \cup UNION { { ExceptionOf(deferreds'[d].calls[i]) : i \in FirstDone(d, a) } :
                 d \in Deferreds }

\* completion paths do not raise: finish and __exit__ return, and the
\* callback leaves the Deferred's result as it was
NoPathRaises ==
    /\ lastOp'.op \in {"finish", "__exit__"} => lastOp'.error = None
    /\ \A d \in Deferreds :
          (Ran(d) # {} /\ \E i \in Ran(d) : deferreds'[d].callbacks[i].kind = "done")
              => deferreds'[d].result = deferreds'[d].calls[Len(deferreds[d].calls) + 1]

\* the first completion path to run on an action delivers its finish
\* message, the later ones deliver nothing, and none raises
HarmlessRace ==
    /\ NoPathRaises
    /\ \A a \in Ids : \A e \in Completions(a) :
          IF actions[a].finished
          THEN log'[a] = log[a]
          ELSE /\ Len(log'[a]) = Len(log[a]) + 1
               /\ Reports(LastMessage(log', a), e)

AtMostOneFinishMessage == \A a \in Ids : Cardinality(FinishMessages(a)) <= 1

\* C10: in whatever order an explicit finish, the exit of a scope and the
\* callback of finishAfter (also one registered twice) occur on an action,
\* one finish message is emitted, by the path that ran first and with its
\* outcome, and no later path raises an error.
C10_HarmlessRace == []AtMostOneFinishMessage /\ [][HarmlessRace]_vars

\* finishAfter was called twice with the Deferred, which fired with a
\* result; finish(exception) had been called before; now a scope on the
\* action was left by another exception: the one message is the first's
C10_Witness ==
    \E d \in Deferreds, e \in Exceptions :
        /\ lastOp.op = "__exit__"
        /\ lastOp.exception \in Exceptions \ {e}
        /\ lastOp.error = None
        /\ deferreds[d].called
        /\ deferreds[d].calls = << [type |-> "result", value |-> "ok"],
                                   [type |-> "result", value |-> "ok"] >>
        /\ \A i \in 1 .. 2 : IsDone(deferreds[d].callbacks[i], lastOp.action)
        /\ hist[lastOp.action].first = <<e>>
        /\ Statuses(lastOp.action) = <<"started", "failed">>
        /\ LastMessage(log, lastOp.action)["reason"] = e.text

\* the task_level of the action reached from a root by the child indices
RECURSIVE LevelOf(_)
LevelOf(path) ==
    IF path = <<>> THEN "/"
    ELSE LevelOf(SubSeq(path, 1, Len(path) - 1)) \o unicode(path[Len(path)]) \o "/"

Level(a) == actions[a].identification["task_level"]

Uuid(a) == actions[a].identification["task_uuid"]

\* in every state, the k-th child made of p has p's level followed by k
\* and "/", and p has counted its children
ChildLevels ==
    \A a \in Ids :
        LET p == hist[a].parent
            k == hist[a].path[Len(hist[a].path)]
        IN  /\ Level(a) = LevelOf(hist[a].path)
            /\ p # NoAction =>
                  /\ Level(a) = Level(p) \o unicode(k) \o "/"
                  /\ k \in 1 .. actions[p].numberOfChildren
            /\ actions[a].numberOfChildren = hist[a].made
            /\ Cardinality(Children(a)) <= hist[a].made

\* a step that makes a child numbers it with the parent's count after the
\* increment (a child whose start message was rejected is counted and not
\* returned); no step lowers a count
ChildrenCounted ==
    /\ (lastOp'.op \in {"child", "startAction"} /\ lastOp'.parent # NoAction) =>
          LET p == lastOp'.parent
              n == actions'[p].numberOfChildren
          IN  /\ n = actions[p].numberOfChildren + 1
              /\ lastOp'.action # NoAction =>
                    actions'[lastOp'.action].identification["task_level"]
                        = Level(p) \o unicode(n) \o "/"
    /\ \A a \in Ids : actions'[a].numberOfChildren >= actions[a].numberOfChildren

\* C2: the k-th child created of an action P, through child or through
\* startAction while P is current, has P's task_level followed by k and
\* "/", k being P's number of children right after the increment, in
\* whatever order P and its children are finished; the number of children
\* never decreases.
C2_ChildLevels == []ChildLevels /\ [][ChildrenCounted]_vars

\* a parent that was finished before its second child was made, while the
\* first child is unfinished
C2_Witness ==
    \E p, c1, c2 \in Ids :
        /\ hist[c1].parent = p /\ hist[c2].parent = p
        /\ hist[c1].via = "child" /\ hist[c2].via = "startAction"
        /\ Level(p) = "/" /\ Level(c1) = "/1/" /\ Level(c2) = "/2/"
        /\ actions[p].finished /\ ~actions[c1].finished /\ actions[c2].finished
        /\ lastOp.op = "finish" /\ lastOp.action = c2

\* the root of the tree an action belongs to
RECURSIVE Root(_)
Root(a) == IF hist[a].parent = NoAction THEN a ELSE Root(hist[a].parent)

SameUuidInTree == \A a \in Ids : Uuid(a) = Uuid(Root(a))

UuidKept == \A a \in Ids : Uuid(a)' = Uuid(a)

\* C3: every action of the tree grown from a root by child calls has the
\* task_uuid of the root, and the task_uuid of an action never changes.
C3_OneUuidPerTree == []SameUuidInTree /\ [][UuidKept]_vars

\* a root, its child made by child() and a grandchild made by startAction
C3_Witness ==
    \E r, c, g \in Ids :
        /\ hist[r].parent = NoAction /\ hist[c].parent = r /\ hist[g].parent = c
        /\ hist[c].via = "child" /\ hist[g].via = "startAction"
        /\ Uuid(g) = Uuid(r) /\ Uuid(c) = Uuid(r)
        /\ Level(g) = "/1/1/"

StartedOnceFirst(a) ==
    /\ Cardinality(Messages(a, "started")) = 1
    /\ log[a][1]["action_status"] = "started"

\* C8 as amended: an action made by startAction or startTask has its start
\* message emitted exactly once, at creation and so before any finish
\* message of it; an action made by calling child directly has no start
\* message, also when it is finished.
C8_StartedByFactories ==
    \A a \in Ids :
        IF hist[a].via \in {"startTask", "startAction"}
        THEN StartedOnceFirst(a)
        ELSE Messages(a, "started") = {}

\* a started child and a child made by child(), both finished
C8_Witness ==
    \E a, b \in Ids :
        /\ hist[a].via = "startAction" /\ hist[a].parent # NoAction
        /\ Statuses(a) = <<"started", "failed">>
        /\ hist[b].via = "child"
        /\ Statuses(b) = <<"succeeded">>

\* C8 as stated: every action that has a finish message has exactly one
\* start message, delivered before it
C8_AsStated ==
    \A a \in Ids : FinishMessages(a) # {} => StartedOnceFirst(a)

\* the action on top of the calling thread's stack, NoAction if none
TopOf(stk) == IF Len(stk) = 0 THEN NoAction ELSE stk[Len(stk)]

\* a startAction step takes the action on top of the caller's stack as
\* parent: with no action there it makes a root with level "/"; under a
\* root it makes "/1/" and later "/2/", under "/1/" it makes "/1/1/"
ResolvesParent ==
    lastOp'.op = "startAction" =>
        LET p == TopOf(stack[host[lastOp'.task]])
            new == actions'[lastOp'.action].identification["task_level"]
        IN  /\ lastOp'.parent = p
            /\ hist'[lastOp'.action].parent = p
            /\ p = NoAction => new = "/"
            /\ (p # NoAction /\ Level(p) = "/" /\ hist[p].made = 0) => new = "/1/"
            /\ (p # NoAction /\ Level(p) = "/1/" /\ hist[p].made = 0) => new = "/1/1/"
            /\ (p # NoAction /\ Level(p) = "/" /\ hist[p].made = 1)
                  => new = "/2/"

\* C4: startAction takes its parent from the calling thread's execution
\* context: a root "/" with an empty context, "/1/" while a root is the
\* active context, "/1/1/" while that child is the active context, and the
\* sibling "/2/" once the child's scope is left and the root is active
\* again.
C4_ResolvesParent == [][ResolvesParent]_vars

\* the four actions of the scenario, made in this order, the root's scope
\* still open
C4_Witness ==
    /\ Len(actions) = 4
    /\ [a \in 1 .. 4 |-> Level(a)] = <<"/", "/1/", "/1/1/", "/2/">>
    /\ \A a \in 1 .. 4 : hist[a].via = "startAction"
    /\ stack[host[Main]] = <<1>>
    /\ actions[2].finished /\ ~actions[3].finished

\* the actions of the scopes a logical thread has open
ActiveIn(t) == { frames[t][i].action : i \in 1 .. Len(frames[t]) }

\* entering or leaving a scope in one logical thread leaves the current
\* action of every other one alone, and startAction takes as parent an
\* action that is active in the calling logical thread
Isolated ==
    /\ lastOp'.op \in {"__enter__", "__exit__"} =>
          \A u \in Tasks \ {lastOp'.task} : currentAction(u)' = currentAction(u)
    /\ (lastOp'.op = "startAction" /\ lastOp'.parent # NoAction) =>
          lastOp'.parent \in ActiveIn(lastOp'.task)

\* C9: every logical thread of control has an execution-context stack of
\* its own: under every interleaving, a push or pop in one never changes
\* what current() returns in another, and startAction in one never takes
\* as parent an action that is active only in another.
C9_Isolated == [][Isolated]_vars

\* a step that adds success fields to a finished action delivers nothing
\* and changes nothing but the accumulator of that action
DroppedAfterFinish ==
    (lastOp'.op = "addSuccessFields" /\ actions[lastOp'.action].finished) =>
        /\ log' = log
        /\ \A b \in Ids :
              actions'[b] = [actions[b] EXCEPT !.successFields = actions'[b].successFields]
        /\ \A b \in Ids \ {lastOp'.action} : actions'[b] = actions[b]
        /\ UNCHANGED <<stack, frames, deferreds, uuids, hist>>

\* once an action is finished, no step changes what the logger has
\* received for it
FinishedLogFrozen == \A a \in Ids : actions[a].finished => log'[a] = log[a]

\* the operations that read an action after it is finished (finish, child)
\* yield the same whatever is added to its accumulator
AccumulatorUnobserved ==
    \A a \in Ids : \A f \in SuccessFields :
        LET A == actions[a]
            B == addSuccessFields(A, f)
        IN  A.finished =>
              /\ B.finished
              /\ \A e \in Outcomes :
                    /\ finish(B, e).written = <<>>
                    /\ finish(B, e).error = finish(A, e).error
                    /\ finish(B, e).action = B
              /\ \A ty \in ActionTypes :
                    /\ child(B, ty, None).child = child(A, ty, None).child
                    /\ child(B, ty, None).parent.numberOfChildren
                           = child(A, ty, None).parent.numberOfChildren

\* C11: addSuccessFields on a finished action emits no message, leaves the
\* finish message already delivered as it is and changes nothing of the
\* action that finish or child read afterwards; on an unfinished action it
\* writes the given keys over the accumulated ones and keeps the others.
C11_DroppedAfterFinish ==
    /\ []AccumulatorUnobserved
    /\ [][DroppedAfterFinish /\ FinishedLogFrozen /\ LastWritePerKey]_vars

\* x = "1" was added, finish(None) delivered it, x = "2" and y were added
\* afterwards and finish was called again: the message still has x = "1"
\* and no y
C11_Witness ==
    /\ lastOp.op = "finish"
    /\ hist[lastOp.action].first = <<None>>
    /\ actions[lastOp.action].finished
    /\ "y" \in DOMAIN actions[lastOp.action].successFields
    /\ actions[lastOp.action].successFields["x"] = "2"
    /\ Statuses(lastOp.action) = <<"started", "succeeded">>
    /\ DOMAIN LastMessage(log, lastOp.action) = {"x"} \cup ProtocolKeys
    /\ LastMessage(log, lastOp.action)["x"] = "1"

\* C12: in every state, an action whose finished flag is true has had
\* exactly one finish message delivered to the logger and an action whose
\* flag is false has had none, also when a serializer has signalled a
\* validation failure during finish.
C12_FlagMatchesMessage ==
    \A a \in Ids :
        Cardinality(FinishMessages(a)) = (IF actions[a].finished THEN 1 ELSE 0)

\* a step in which __exit__ ran: the stack of the caller is what it was when
\* the scope was entered; when finish raised a validation failure, that
\* failure leaves the with statement, nothing was delivered, and the action
\* is not the current one unless it was on the stack before the entry
ExitPopsFirst ==
    lastOp'.op = "__exit__" =>
        LET a == lastOp'.action
            after == stack'[host[lastOp'.task]]
        IN  /\ after = lastOp'.before
            /\ lastOp'.error = ValidationError =>
                  /\ lastOp'.raised = ValidationError
                  /\ log' = log
                  /\ actions'[a].finished
                  /\ (\A i \in 1 .. Len(lastOp'.before) : lastOp'.before[i] # a)
                         => current(after) # a

\* C20 as amended: __exit__ removes the action from the execution context
\* before it finishes it: when the finish made by the exit of a scope
\* raises a validation failure, the failure goes to the caller of the scope
\* and the context stack is what it was before the matching entry; the
\* action is not the current action any more when it was not on the stack
\* before that entry, and an action entered inside its own scope stays on
\* the stack as the outer entry left it.
C20_ExitPopsFirst == [][ExitPopsFirst]_vars

\* an exit step whose finish raised a validation failure passes the failure
\* on, leaves the stack as it was before the matching entry, and leaves the
\* exiting action not current
ExitLeavesActionNotCurrent ==
    (lastOp'.op = "__exit__" /\ lastOp'.error = ValidationError) =>
        LET a == lastOp'.action
            after == stack'[host[lastOp'.task]]
        IN  /\ lastOp'.raised = ValidationError
            /\ after = lastOp'.before
            /\ current(after) # a

\* C20 as stated: after a scoped exit whose finish raises a validation
\* failure, the failure propagates, the stack equals the stack before the
\* matching entry, and the exiting action is no longer the current action.
\* Refuted by `with a: with a:` under a serializer that rejects the finish
\* message: the inner exit leaves a on the stack, where the outer entry
\* put it.
C20_AsStated == [][ExitLeavesActionNotCurrent]_vars

\* the scope of an action was left normally, the success serializer
\* rejected the finish message, and the context is empty again
C20_Witness ==
    /\ lastOp.op = "__exit__"
    /\ lastOp.exception = None
    /\ lastOp.error = ValidationError
    /\ lastOp.raised = ValidationError
    /\ lastOp.before = <<>>
    /\ context(lastOp.task) = <<>>
    /\ currentAction(lastOp.task) = NoAction
    /\ FinishMessages(lastOp.action) = {}

\* a step in which startTask returns: the new action has level "/" and a
\* task_uuid no action had before, no other action (the current one
\* included) has changed, the context is as before, and the logger has
\* received one message, the start message of the new action
StartTaskMakesRoot ==
    (lastOp'.op = "startTask" /\ lastOp'.error = None) =>
        LET a == lastOp'.action
            new == actions'[Len(actions) + 1].identification
        IN  /\ a = Len(actions) + 1
            /\ new["task_level"] = "/"
            /\ \A b \in Ids : new["task_uuid"] # Uuid(b)
            /\ \A b \in Ids : actions'[b] = actions[b]
            /\ \A b \in Ids : log'[b] = log[b]
            /\ Len(log'[Len(actions) + 1]) = 1
            /\ log'[Len(actions) + 1][1]["action_status"] = "started"
            /\ stack' = stack

\* C13: startTask always creates a root action: with an empty context or
\* with any action active, the action it returns has task_level "/" and a
\* new task_uuid that differs from that of every task created before, the
\* active action's number of children is unchanged, and exactly one start
\* message is emitted.
C13_StartTaskMakesRoot == [][StartTaskMakesRoot]_vars

\* startTask was called inside the scope of a child action of an earlier
\* task: the new action is a root of another task and the active action
\* still has no children
C13_Witness ==
    /\ lastOp.op = "startTask"
    /\ Len(actions) = 3
    /\ lastOp.action = 3
    /\ currentAction(Main) = 2
    /\ Level(2) = "/1/"
    /\ actions[2].numberOfChildren = 0
    /\ Level(3) = "/"
    /\ Uuid(3) # Uuid(1)
    /\ Statuses(3) = <<"started">>

\* the position of an action: its task and its level in the task
Position(a) == <<Uuid(a), Level(a)>>

\* C19: after any sequence of startTask, startAction, child, scope entries
\* and exits and finish calls made in one thread, no two distinct actions
\* have both the same task_uuid and the same task_level.
C19_UniquePositions ==
    \A a, b \in Ids : a # b => Position(a) # Position(b)

\* two children of one finished parent, the first made by startAction in
\* its scope and the second by child after the scope was left: same task,
\* levels "/1/" and "/2/"
C19_Witness ==
    \E p, a, b \in Ids :
        /\ hist[a].parent = p /\ hist[b].parent = p
        /\ hist[a].via = "startAction" /\ hist[b].via = "child"
        /\ actions[p].finished
        /\ context(Main) = <<>>
        /\ Uuid(a) = Uuid(b)
        /\ Level(a) = "/1/" /\ Level(b) = "/2/"

\* a pop step on an empty stack raises IndexError and leaves the stack
\* empty and everything else as it was; a pop step on another stack returns
PopOnEmptyRaises ==
    lastOp'.op = "pop" =>
        IF stack[host[lastOp'.task]] = <<>>
        THEN /\ lastOp'.error = IndexError
             /\ stack' = stack
             /\ current(stack'[host[lastOp'.task]]) = NoAction
             /\ UNCHANGED <<actions, log, frames, deferreds, hist, pushed>>
        ELSE lastOp'.error = None

\* C15: pop() on an empty execution-context stack signals an error to the
\* caller instead of returning normally and leaves the stack empty, so that
\* current() still returns none afterwards.
C15_PopOnEmptyRaises == [][PopOnEmptyRaises]_vars

\* an action was pushed and popped, and a second pop has just raised
C15_Witness ==
    /\ lastOp.op = "pop"
    /\ lastOp.error = IndexError
    /\ Len(pushed[lastOp.task]) = 1
    /\ pushed[lastOp.task][1].popped
    /\ context(lastOp.task) = <<>>
    /\ currentAction(lastOp.task) = NoAction

\* what the history of pushes and pops says current() returns
ExpectedCurrent(t) ==
    IF LatestUnpopped(pushed[t]) = 0 THEN NoAction
    ELSE pushed[t][LatestUnpopped(pushed[t])].action

\* a current() step returns the top of the stack and changes nothing
CurrentIsPure ==
    lastOp'.op = "current" =>
        /\ lastOp'.returns = ExpectedCurrent(lastOp'.task)
        /\ UNCHANGED <<actions, log, stack, frames, deferreds, hist, pushed>>

\* in every state the top of the stack is the action pushed most recently
\* among those not popped yet
CurrentIsLatestUnpopped == currentAction(Main) = ExpectedCurrent(Main)

\* C16: after any sequence of push and pop calls in one thread, current()
\* returns the action pushed most recently among those not popped yet, or
\* none when every pushed action has been popped; current() itself changes
\* nothing.
C16_Lifo ==
    /\ []CurrentIsLatestUnpopped
    /\ [][CurrentIsPure]_vars

\* 1, 2 and 1 were pushed and one pop made: current() has just returned 2
C16_Witness ==
    /\ lastOp.op = "current"
    /\ lastOp.returns = 2
    /\ Len(pushed[Main]) = 3
    /\ [i \in 1 .. 3 |-> pushed[Main][i].action] = <<1, 2, 1>>
    /\ [i \in 1 .. 3 |-> pushed[Main][i].popped] = <<FALSE, FALSE, TRUE>>

\* a step that ends a context() block or a run(f) call finishes nothing and
\* delivers nothing, leaves the stack as it was when the block or call
\* began, and hands on what the body returned or raised
ContextDoesNotFinish ==
    lastOp'.op \in {"context end", "run end"} =>
        /\ actions' = actions
        /\ log' = log
        /\ stack'[host[lastOp'.task]] = lastOp'.before
        /\ lastOp'.propagated = lastOp'.outcome

\* C14: the context() block and run(f) never finish the action: when they
\* end, the finished flag is unchanged and no finish message has been
\* emitted, the context stack is what it was before entry whether the body
\* returned or raised, and run passes on whatever f returns or raises.
C14_ContextDoesNotFinish == [][ContextDoesNotFinish]_vars

\* run(f) on an unfinished action inside a context() block of another
\* action: f has raised, the action is still unfinished and has only its
\* start message, and the stack holds the outer action again
C14_Witness ==
    /\ lastOp.op = "run end"
    /\ lastOp.outcome \in Exceptions
    /\ lastOp.propagated = lastOp.outcome
    /\ ~actions[lastOp.action].finished
    /\ Statuses(lastOp.action) = <<"started">>
    /\ Len(frames[Main]) = 1
    /\ frames[Main][1].kind = "context"
    /\ context(Main) = <<frames[Main][1].action>>
    /\ frames[Main][1].action # lastOp.action

\* a finishAfter step on a Deferred that has not fired changes no action
\* and delivers nothing
RegistersOnly ==
    (lastOp'.op = "finishAfter" /\ ~deferreds[lastOp'.deferred].called) =>
        /\ actions' = actions
        /\ log' = log
        /\ Len(deferreds'[lastOp'.deferred].calls) = 0

\* an action becomes finished only in a step that calls finish on it or
\* leaves its scope, or in which the callback of finishAfter runs for it:
\* the Deferred fires, or has fired when the callback is added
FinishedByAPath ==
    \A a \in Ids :
        (~actions[a].finished /\ actions'[a].finished) =>
            \/ lastOp'.op \in {"finish", "__exit__"} /\ lastOp'.action = a
            \/ \E d \in Deferreds :
                  /\ deferreds'[d].called
                  /\ \E i \in Ran(d) : IsDone(deferreds'[d].callbacks[i], a)

\* what a callback of the given kind hands on when it receives result
HandsOn(kind, result) ==
    CASE kind \in {"done", "observer"} -> result
      [] kind = "recover" -> [type |-> "result", value |-> "recovered"]
      [] kind = "raiser"  -> Failure(Exc("eliot.tests", "Bust", "bust"))

\* when the callback of finishAfter runs at position i of the Deferred's
\* list, every callback before it has run, it receives what the one before
\* it handed on (the fired result if it is the first), and an action not
\* finished before is finished with just that
AfterEarlierCallbacks ==
    \A d \in Deferreds : \A i \in Ran(d) :
        LET cbs == deferreds'[d].callbacks
            calls == deferreds'[d].calls
        IN  cbs[i].kind = "done" =>
              /\ \A j \in 1 .. (i - 1) : j <= Len(calls)
              /\ i > 1 => calls[i] = HandsOn(cbs[i - 1].kind, calls[i - 1])
              /\ (i = 1 /\ lastOp'.op = "fire") => calls[i] = lastOp'.result
              /\ (~actions[cbs[i].action].finished /\ i \in FirstDone(d, cbs[i].action))
                    => /\ Len(log'[cbs[i].action]) = Len(log[cbs[i].action]) + 1
                       /\ Reports(LastMessage(log', cbs[i].action), ExceptionOf(calls[i]))

\* C17: finishAfter only registers a callback: the action stays unfinished,
\* with no finish message, as long as the Deferred has not fired (and so
\* for ever if it never fires); when it fires, the action is finished only
\* after every callback added before finishAfter has run, with the result
\* or Failure as those callbacks left it.
C17_RegistersOnly ==
    [][RegistersOnly /\ FinishedByAPath /\ AfterEarlierCallbacks]_vars

\* a callback that raises was added before finishAfter; the Deferred fired
\* with a plain result and the action failed with what that callback raised
C17_Witness ==
    \E d \in Deferreds :
        /\ lastOp.op = "fire"
        /\ lastOp.result = [type |-> "result", value |-> "ok"]
        /\ Len(deferreds[d].callbacks) = 2
        /\ deferreds[d].callbacks[1].kind = "raiser"
        /\ deferreds[d].callbacks[2].kind = "done"
        /\ Statuses(deferreds[d].callbacks[2].action) = <<"started", "failed">>
        /\ LastMessage(log, deferreds[d].callbacks[2].action)["exception"]
               = "eliot.tests.Bust"

\* message m of action a carries a's own identification and the status
CarriesProtocol(m, a, status) ==
    /\ m["task_uuid"] = Uuid(a)
    /\ m["task_level"] = Level(a)
    /\ m["action_type"] = actions[a].identification["action_type"]
    /\ m["action_status"] = status

\* the identification of an action is what the factory computed: a
\* generated task_uuid, a level made of child indices, the given type
OwnIdentification(a) ==
    /\ Uuid(a) \in { uuid4(n) : n \in 1 .. uuids }
    /\ Level(a) = LevelOf(hist[a].path)
    /\ actions[a].identification["action_type"] \in ActionTypes

\* C18: fields given by the caller never override the protocol fields: in
\* every start message and every success finish message task_uuid,
\* task_level and action_type are the action's own identification and
\* action_status is "started" or "succeeded", also when the fields passed
\* to startAction / startTask or addSuccessFields use these keys.
C18_ProtocolFieldsWin ==
    \A a \in Ids :
        /\ OwnIdentification(a)
        /\ Len(log[a]) >= 1
        /\ CarriesProtocol(log[a][1], a, "started")
        /\ hist[a].first = <<None>> =>
              /\ Len(log[a]) = 2
              /\ CarriesProtocol(log[a][2], a, "succeeded")

\* a child started with task_level among its fields and given
\* action_status and task_uuid as success fields has finished successfully:
\* both messages carry its own fields, and the other fields given
C18_Witness ==
    \E a \in Ids :
        /\ hist[a].parent # NoAction
        /\ hist[a].first = <<None>>
        /\ Level(a) = "/1/"
        /\ log[a][1] = [ task_uuid |-> "uuid-1", task_level |-> "/1/",
                         action_type |-> "t:a", action_status |-> "started",
                         entry |-> "1" ]
        /\ log[a][2] = [ task_uuid |-> "uuid-1", task_level |-> "/1/",
                         action_type |-> "t:a", action_status |-> "succeeded",
                         x |-> "1" ]

====
